---------------------------- MODULE Spec2Model ----------------------------
(***************************************************************************)
(* A model of RP_app.py: the name parser (parse_project_input), the two    *)
(* search providers and their fallback (search_web_serp, search_web_bing,  *)
(* search_web_info), the eight research steps and the session state that   *)
(* main() keeps in st.session_state.                                       *)
(*                                                                         *)
(* A Python string is a sequence of characters; a character is a           *)
(* one-element TLA+ string.  The en dash and the em dash are written       *)
(* "ndash" and "mdash".                                                    *)
(***************************************************************************)
EXTENDS Integers, Sequences, FiniteSets, TLC

VARIABLES
    project_input,    \* the text of the "Enter Project Information" box
    company_name,     \* main()'s local company_name after parsing / manual edit
    project_name,     \* main()'s local project_name
    research_data,    \* st.session_state.research_data, a dict
    completed_steps,  \* st.session_state.completed_steps, a set of step indexes
    secrets,          \* the keys present in st.secrets
    spent,            \* what the edits, note saves and failed requests have cost so far
    last,             \* what the last event did: "run", "overwrite", "nosave", "clear" or "plain"
    pc,               \* position inside search_web_info
    query,            \* search_web_info's argument
    result,           \* search_web_info's local variable result
    ret,              \* what search_web_info returned
    calls             \* the provider calls search_web_info has made, in order

vars == <<project_input, company_name, project_name, research_data,
          completed_steps, secrets, spent, last, pc, query, result, ret,
          calls>>

-----------------------------------------------------------------------------
(* Python string primitives.                                               *)

\* str.isspace for the characters of the model.
IsSpace(c) == c = " "

UpperToLower ==
    [A |-> "a", B |-> "b", C |-> "c", D |-> "d", E |-> "e", F |-> "f",
     G |-> "g", H |-> "h", I |-> "i", J |-> "j", K |-> "k", L |-> "l",
     M |-> "m", N |-> "n", O |-> "o", P |-> "p", Q |-> "q", R |-> "r",
     S |-> "s", T |-> "t", U |-> "u", V |-> "v", W |-> "w", X |-> "x",
     Y |-> "y", Z |-> "z"]

\* str.lower
Lower(s) ==
    [k \in 1..Len(s) |->
        IF s[k] \in DOMAIN UpperToLower THEN UpperToLower[s[k]] ELSE s[k]]

\* s[a-1:b] in Python terms: the characters at positions a..b (1-based).
Slice(s, a, b) == [k \in 1..(b - a + 1) |-> s[a + k - 1]]

\* sub occurs in s starting at position k.
OccursAt(sub, s, k) ==
    /\ k >= 1
    /\ k + Len(sub) - 1 <= Len(s)
    /\ \A j \in 1..Len(sub) : s[k + j - 1] = sub[j]

\* `sub in s`
Contains(sub, s) == \E k \in 1..(Len(s) + 1) : OccursAt(sub, s, k)

\* str.find, 1-based; 0 when sub does not occur.
Find(sub, s) ==
    IF Contains(sub, s)
    THEN CHOOSE k \in 1..(Len(s) + 1) :
            /\ OccursAt(sub, s, k)
            /\ \A j \in 1..(k - 1) : ~OccursAt(sub, s, j)
    ELSE 0

\* s.rsplit(sep, 1): the split at the last occurrence of sep.
SplitOnceAtLast(s, sep) ==
    IF ~Contains(sep, s) THEN <<s>>
    ELSE LET k == CHOOSE k \in 1..Len(s) :
                     /\ OccursAt(sep, s, k)
                     /\ \A j \in (k + 1)..Len(s) : ~OccursAt(sep, s, j)
         IN <<Slice(s, 1, k - 1), Slice(s, k + Len(sep), Len(s))>>

\* s.split(sep, 1): at most one split, at the first occurrence of sep.
SplitOnce(s, sep) ==
    LET k == Find(sep, s) IN
    IF k = 0 THEN <<s>>
    ELSE <<Slice(s, 1, k - 1), Slice(s, k + Len(sep), Len(s))>>

RECURSIVE LStrip(_)
LStrip(s) == IF s # <<>> /\ IsSpace(Head(s)) THEN LStrip(Tail(s)) ELSE s

RECURSIVE RStrip(_)
RStrip(s) ==
    IF s # <<>> /\ IsSpace(s[Len(s)]) THEN RStrip(Slice(s, 1, Len(s) - 1)) ELSE s

\* str.lstrip in the place of str.strip.
StripLeftOnly(s) == LStrip(s)

\* str.strip
Strip(s) == RStrip(LStrip(s))

\* The first word of a string that does not start with whitespace.
RECURSIVE FirstWord(_)
FirstWord(s) ==
    IF s = <<>> \/ IsSpace(Head(s)) THEN <<>>
    ELSE <<Head(s)>> \o FirstWord(Tail(s))

\* str.split(): split on runs of whitespace, no empty words.
RECURSIVE SplitWords(_)
SplitWords(s) ==
    LET t == LStrip(s) IN
    IF t = <<>> THEN <<>>
    ELSE LET w == FirstWord(t) IN
         <<w>> \o SplitWords(Slice(t, Len(w) + 1, Len(t)))

\* ' '.join(words)
RECURSIVE Join(_)
Join(words) ==
    IF words = <<>> THEN <<>>
    ELSE IF Len(words) = 1 THEN words[1]
    ELSE words[1] \o <<" ">> \o Join(Tail(words))

-----------------------------------------------------------------------------
(* parse_project_input                                                     *)

separators ==
    << <<" ", "-", " ">>, <<" ", "ndash", " ">>, <<" ", "mdash", " ">>,
       <<" ", "|", " ">>, <<" ", "/", " ">>, <<" ", "\\", " ">> >>

project_keywords ==
    { <<"p","r","o","j","e","c","t">>, <<"m","i","n","e">>,
      <<"d","e","p","o","s","i","t">>, <<"p","r","o","s","p","e","c","t">>,
      <<"o","p","e","r","a","t","i","o","n">>, <<"h","i","l","l">>,
      <<"p","i","t">>, <<"f","i","e","l","d">> }

potential_project_words ==
    { <<"h","i","l","l">>, <<"c","r","e","e","k">>, <<"m","i","n","e">>,
      <<"p","i","t">>, <<"d","e","p","o","s","i","t">>,
      <<"p","r","o","s","p","e","c","t">> }

\* The for loop of lines 186-190: the index of the first separator of the list
\* that occurs in the input, 0 when none does.
FirstSeparator(s) ==
    IF \E n \in 1..Len(separators) : Contains(separators[n], s)
    THEN CHOOSE n \in 1..Len(separators) :
            /\ Contains(separators[n], s)
            /\ \A m \in 1..(n - 1) : ~Contains(separators[m], s)
    ELSE 0

\* Lines 188-190.
SeparatorSplit(s, sep) ==
    LET parts == SplitOnce(s, sep) IN <<Strip(parts[1]), Strip(parts[2])>>

\* The loop of lines 198-204 without the test of line 200: a keyword in the
\* first place stops the scan.
KeywordIndexFromStart(words) ==
    LET hits == {k \in 1..Len(words) : Lower(words[k]) \in project_keywords} IN
    IF hits = {} THEN 0 ELSE CHOOSE k \in hits : \A j \in hits : k <= j

\* The for loop of lines 198-204: the first index i > 0 (0-based) whose word
\* is a keyword, as a 1-based position; 0 when there is none.
KeywordIndex(words) ==
    LET hits == {k \in 2..Len(words) : Lower(words[k]) \in project_keywords} IN
    IF hits = {} THEN 0 ELSE CHOOSE k \in hits : \A j \in hits : k <= j

\* The test of lines 213 and 221 as a test of equality with a keyword.
LooksLikeProjectExact(text) == text \in potential_project_words

\* any(keyword in text for keyword in potential_project_words), lines 213, 221.
LooksLikeProject(text) ==
    \E keyword \in potential_project_words : Contains(keyword, text)

\* Line 227 halving the number of gaps between the words.
MidpointOfGaps(n) == (n - 1) \div 2

\* Line 227 rounding up.
MidpointRoundedUp(n) == (n + 1) \div 2

\* Line 227: len(words) // 2
Midpoint(n) == n \div 2

\* Lines 193-233: the input holds no separator.
WordSplit(s) ==
    LET words == SplitWords(s)
        n == Len(words)
        i == KeywordIndex(words)
        last_word == Lower(words[n])
        last_two == Lower(Join(SubSeq(words, n - 1, n)))
        mid == Midpoint(n)
    IN
    IF n < 2 THEN <<Strip(s), Strip(s)>>
    ELSE IF i # 0
    THEN <<Strip(Join(SubSeq(words, 1, i - 1))), Strip(Join(SubSeq(words, i, n)))>>
    ELSE IF LooksLikeProject(last_word)
    THEN <<Strip(Join(SubSeq(words, 1, n - 1))), Strip(words[n])>>
    ELSE IF n >= 3 /\ LooksLikeProject(last_two)
    THEN <<Strip(Join(SubSeq(words, 1, n - 2))), Strip(Join(SubSeq(words, n - 1, n)))>>
    ELSE <<Strip(Join(SubSeq(words, 1, mid))), Strip(Join(SubSeq(words, mid + 1, n)))>>

parse_project_input(s) ==
    LET n == FirstSeparator(s) IN
    IF n # 0 THEN SeparatorSplit(s, separators[n]) ELSE WordSplit(s)

-----------------------------------------------------------------------------
(* Dicts: a Python dict is a function whose domain is its set of keys.     *)

EmptyDict == [k \in {} |-> k]

\* d[k] = v
Put(d, k, v) == [x \in (DOMAIN d) \cup {k} |-> IF x = k THEN v ELSE d[x]]

\* d.get(k, default)
Get(d, k, default) == IF k \in DOMAIN d THEN d[k] ELSE default

-----------------------------------------------------------------------------
(* The network, as seen through requests.get: the call raises, or it       *)
(* returns a response with a status code whose body decodes to a dict or   *)
(* does not decode.                                                        *)

MaxEntries == 6     \* the longest result list a response body holds

TopN == 5           \* the [:5] of lines 100 and 145

Raises(e) == [kind |-> "raise", exc |-> e]

Status(code) == [kind |-> "http", status |-> code, json |-> FALSE, data |-> EmptyDict]

Body(d) == [kind |-> "http", status |-> 200, json |-> TRUE, data |-> d]

NotJson == [kind |-> "http", status |-> 200, json |-> FALSE, data |-> EmptyDict]

EntryText == <<"1", "2", "3", "4", "5", "6", "7", "8">>

\* The k-th organic result of a SerpAPI body; every second one has no snippet.
SerpEntry(k) ==
    IF k % 2 = 1
    THEN [title |-> "g-title", link |-> EntryText[k], snippet |-> "g-snippet"]
    ELSE [title |-> "g-title", link |-> EntryText[k]]

\* The k-th web page of a Bing body; every second one has no name.
BingEntry(k) ==
    IF k % 2 = 1
    THEN [name |-> "b-name", url |-> EntryText[k], snippet |-> "b-snippet"]
    ELSE [url |-> EntryText[k], snippet |-> "b-snippet"]

\* A JSON null where an entry of a result list is expected: None in Python.
JsonNull == [json_null |-> TRUE]

\* n entries, the last of them null.
SerpNullBodies ==
    {Body([organic_results |-> [k \in 1..n |-> IF k = n THEN JsonNull ELSE SerpEntry(k)]]) :
        n \in 1..MaxEntries}

BingNullBodies ==
    {Body([webPages |-> [value |-> [k \in 1..n |-> IF k = n THEN JsonNull ELSE BingEntry(k)]]]) :
        n \in 1..MaxEntries}

SerpBodies ==
    {Body([organic_results |-> [k \in 1..n |-> SerpEntry(k)]]) : n \in 0..MaxEntries}
        \cup {Body([search_metadata |-> "ok"])}
        \cup SerpNullBodies

BingBodies ==
    {Body([webPages |-> [value |-> [k \in 1..n |-> BingEntry(k)]]]) : n \in 0..MaxEntries}
        \cup {Body([webPages |-> [totalEstimatedMatches |-> "0"]]), Body([_type |-> "SearchResponse"])}
        \cup BingNullBodies

Failures == {Status(404), Status(500), Raises("timeout"), Raises("connection"), NotJson}

SerpResponses == SerpBodies \cup Failures

BingResponses == BingBodies \cup Failures

-----------------------------------------------------------------------------
(* search_web_serp, search_web_bing                                        *)

\* f"API request failed with status {response.status_code}"
FailedWithStatus(code) ==
    CASE code = 404 -> "API request failed with status 404"
      [] code = 500 -> "API request failed with status 500"

\* f"Search error: {str(e)}"
SearchError(e) ==
    CASE e = "timeout" -> "Search error: Read timed out. (read timeout=10)"
      [] e = "connection" -> "Search error: Connection refused"
      [] e = "json" -> "Search error: Expecting value: line 1 column 1 (char 0)"
      [] e = "attribute" -> "Search error: 'NoneType' object has no attribute 'get'"

\* result.get raises in the loop of lines 100-105: one of the entries the loop
\* visits is None.
SerpRaises(data) ==
    /\ "organic_results" \in DOMAIN data
    /\ \E k \in 1..Len(data["organic_results"]) :
          k <= TopN /\ data["organic_results"][k] = JsonNull

\* The same in the loop of lines 145-150.
BingRaises(data) ==
    /\ "webPages" \in DOMAIN data
    /\ "value" \in DOMAIN data["webPages"]
    /\ \E k \in 1..Len(data["webPages"]["value"]) :
          k <= TopN /\ data["webPages"]["value"][k] = JsonNull

\* Lines 99-105 without the [:5] of line 100.
SerpResultsAll(data) ==
    IF "organic_results" \in DOMAIN data
    THEN LET all == data["organic_results"]
         IN [k \in 1..Len(all) |->
                [title |-> Get(all[k], "title", ""),
                 link |-> Get(all[k], "link", ""),
                 snippet |-> Get(all[k], "snippet", "")]]
    ELSE <<>>

\* data["organic_results"][:5] mapped by lines 101-105.
SerpResults(data) ==
    IF "organic_results" \in DOMAIN data
    THEN LET all == data["organic_results"]
             n == IF Len(all) < TopN THEN Len(all) ELSE TopN
         IN [k \in 1..n |->
                [title |-> Get(all[k], "title", ""),
                 link |-> Get(all[k], "link", ""),
                 snippet |-> Get(all[k], "snippet", "")]]
    ELSE <<>>

\* data["webPages"]["value"][:5] mapped by lines 146-150.
BingResults(data) ==
    IF "webPages" \in DOMAIN data /\ "value" \in DOMAIN data["webPages"]
    THEN LET all == data["webPages"]["value"]
             n == IF Len(all) < TopN THEN Len(all) ELSE TopN
         IN [k \in 1..n |->
                [title |-> Get(all[k], "name", ""),
                 link |-> Get(all[k], "url", ""),
                 snippet |-> Get(all[k], "snippet", "")]]
    ELSE <<>>

\* search_web_serp without the test of the status code (line 95).
search_web_serp_any_status(q, keys, resp) ==
    IF "serp_api_key" \notin keys
    THEN [error |-> "SERP API key not found in secrets"]
    ELSE IF resp.kind = "raise" THEN [error |-> SearchError(resp.exc)]
    ELSE IF ~resp.json THEN [error |-> SearchError("json")]
    ELSE IF SerpRaises(resp.data) THEN [error |-> SearchError("attribute")]
    ELSE [results |-> SerpResults(resp.data), query |-> q]

\* search_web_serp(query) when st.secrets holds `keys` and requests.get, if it
\* is reached, behaves as resp.
search_web_serp(q, keys, resp) ==
    IF "serp_api_key" \notin keys
    THEN [error |-> "SERP API key not found in secrets"]
    ELSE IF resp.kind = "raise" THEN [error |-> SearchError(resp.exc)]
    ELSE IF resp.status = 200
    THEN IF ~resp.json THEN [error |-> SearchError("json")]
         ELSE IF SerpRaises(resp.data) THEN [error |-> SearchError("attribute")]
         ELSE [results |-> SerpResults(resp.data), query |-> q]
    ELSE [error |-> FailedWithStatus(resp.status)]

\* search_web_bing without the except clause of lines 156-157: an exception
\* of requests.get leaves the function.
search_web_bing_uncaught(q, keys, resp) ==
    IF "bing_api_key" \notin keys
    THEN [error |-> "Bing API key not found in secrets"]
    ELSE IF resp.kind = "raise" THEN [raised |-> resp.exc]
    ELSE IF resp.status = 200
    THEN IF ~resp.json THEN [raised |-> "json"]
         ELSE IF BingRaises(resp.data) THEN [raised |-> "attribute"]
         ELSE [results |-> BingResults(resp.data), query |-> q]
    ELSE [error |-> FailedWithStatus(resp.status)]

\* search_web_bing(query), in the same way.
search_web_bing(q, keys, resp) ==
    IF "bing_api_key" \notin keys
    THEN [error |-> "Bing API key not found in secrets"]
    ELSE IF resp.kind = "raise" THEN [error |-> SearchError(resp.exc)]
    ELSE IF resp.status = 200
    THEN IF ~resp.json THEN [error |-> SearchError("json")]
         ELSE IF BingRaises(resp.data) THEN [error |-> SearchError("attribute")]
         ELSE [results |-> BingResults(resp.data), query |-> q]
    ELSE [error |-> FailedWithStatus(resp.status)]

\* search_web_serp with one more attempt after the first.
SerpRequestsWithRetry(keys) == IF "serp_api_key" \in keys THEN 2 ELSE 0

\* The requests.get calls one invocation of a provider makes.
SerpRequests(keys) == IF "serp_api_key" \in keys THEN 1 ELSE 0

BingRequests(keys) == IF "bing_api_key" \in keys THEN 1 ELSE 0

-----------------------------------------------------------------------------
(* search_web_info                                                         *)

NoWorkingSearchApi ==
    "No working search API found. Please configure SERP_API_KEY or BING_API_KEY in Streamlit secrets."

\* A misspelt key: the test of lines 167 and 172 never sees an error.
HasErrorMisspelt(r) == "errors" \in DOMAIN r

\* Lines 167 and 172 asking for a result as well: an empty list counts as a
\* failure.
HasErrorOrEmpty(r) == "error" \in DOMAIN r \/ r["results"] = <<>>

\* `"error" in result`
HasError(r) == "error" \in DOMAIN r

\* Lines 176-179 without the query.
BothFailedNoQuery(q) == [error |-> NoWorkingSearchApi]

\* Lines 176-179.
BothFailed(q) == [error |-> NoWorkingSearchApi, query |-> q]

\* search_web_info(query) as a function of what the network does.
search_web_info(q, keys, serpResp, bingResp) ==
    LET r1 == search_web_serp(q, keys, serpResp)
        r2 == search_web_bing(q, keys, bingResp)
    IN IF ~HasError(r1) THEN r1
       ELSE IF ~HasError(r2) THEN r2
       ELSE BothFailed(q)

-----------------------------------------------------------------------------
(* The eight research steps (lines 235-329 and 444-493).                   *)

NumSteps == 8       \* len(research_steps)

StepIndexes == 0..(NumSteps - 1)

\* research_steps[i]['key']
StepKey(i) ==
    CASE i = 0 -> "location"  [] i = 1 -> "coordinates" [] i = 2 -> "commodity"
      [] i = 3 -> "drilling"  [] i = 4 -> "stage"       [] i = 5 -> "resources"
      [] i = 6 -> "competency" [] i = 7 -> "process"

\* f"{step['key']}_extracted"
ExtractedKey(i) ==
    CASE i = 0 -> "location_extracted"  [] i = 1 -> "coordinates_extracted"
      [] i = 2 -> "commodity_extracted" [] i = 3 -> "drilling_extracted"
      [] i = 4 -> "stage_extracted"     [] i = 5 -> "resources_extracted"
      [] i = 6 -> "competency_extracted" [] i = 7 -> "process_extracted"

\* The text that follows the two quoted names in the query of step i.
QueryTerms(i) ==
    CASE i = 0 -> " location \"Western Australia\" OR \"WA\" OR \"Queensland\" OR \"NSW\" state"
      [] i = 1 -> " coordinates latitude longitude GPS mining location"
      [] i = 2 -> " gold copper iron ore lithium mineral commodity type"
      [] i = 3 -> " diamond drilling completed reverse circulation RC drilling program"
      [] i = 4 -> " exploration scoping study PFS DFS feasibility development stage"
      [] i = 5 -> " resource estimate tonnage grade ounces Mt Moz JORC mineral resource"
      [] i = 6 -> " ore competency UCS BWI \"bond work index\" hardness strength crushing"
      [] i = 7 -> " process flowsheet HPGR \"high pressure grinding\" comminution processing"

\* A query that also depends on the session: on how many steps are completed.
BuildQueryWithCount(i, company, project) ==
    <<"\"", company, "\" \"", project, "\"", QueryTerms(i), Cardinality(completed_steps)>>

\* The f-string of each get_* function: its literal pieces and the two names.
BuildQuery(i, company, project) ==
    <<"\"", company, "\" \"", project, "\"", QueryTerms(i)>>

\* The 'step' entry of what get_* returns.
StepTitle(i) ==
    CASE i = 0 -> "Project Location"        [] i = 1 -> "Geographic Coordinates"
      [] i = 2 -> "Commodity Information"   [] i = 3 -> "Diamond Drilling Status"
      [] i = 4 -> "Project Development Stage" [] i = 5 -> "Resource Size and Grade"
      [] i = 6 -> "Ore Competency"          [] i = 7 -> "Process Flowsheet & HPGR"

\* The key of the placeholder entry of what get_* returns.
PlaceholderKey(i) ==
    CASE i = 0 -> "location"       [] i = 1 -> "coordinates" [] i = 2 -> "commodity"
      [] i = 3 -> "drilling_status" [] i = 4 -> "project_stage"
      [] i = 5 -> "resource_data"  [] i = 6 -> "ore_competency"
      [] i = 7 -> "process_info"

\* The dict a get_* function returns, given what search_web_info returned.
StepResult(i, company, project, found) ==
    (PlaceholderKey(i) :> "to be extracted from search results")
        @@ [query |-> BuildQuery(i, company, project),
            results |-> found,
            step |-> StepTitle(i)]

-----------------------------------------------------------------------------
(* Inputs.                                                                 *)

MaxTokens == 3      \* the most tokens a label of the parser's inputs is made of
MaxWords == 3       \* the most words a label made of words of Vocabulary has
MaxEvents == 2      \* the most a session spends on edits, note saves and failed requests

SecretKeys == {"serp_api_key", "bing_api_key"}

\* The pieces the labels given to the parser are made of.
LabelTokens ==
    {<<"A">>, <<"A", " ", "M", "i", "n", "e">>, <<" ">>, <<"-">>}
        \cup {separators[n] : n \in 1..Len(separators)}

RECURSIVE Flatten(_)
Flatten(pieces) ==
    IF pieces = <<>> THEN <<>> ELSE Head(pieces) \o Flatten(Tail(pieces))

Labels ==
    {Flatten(t) : t \in UNION {[1..n -> LabelTokens] : n \in 1..MaxTokens}}

\* The words of the labels without a separator: BHP, Olympic, Dam, Mine,
\* Pittsburgh, Creek.
Vocabulary ==
    { <<"B","H","P">>, <<"O","l","y","m","p","i","c">>, <<"D","a","m">>,
      <<"M","i","n","e">>, <<"P","i","t","t","s","b","u","r","g","h">>,
      <<"C","r","e","e","k">> }

\* The labels of one to MaxWords words of Vocabulary, a space between them.
WordLabels ==
    {Join(ws) : ws \in UNION {[1..n -> Vocabulary] : n \in 1..MaxWords}}

\* Labels of five words: "A A A Creek A", "A A A Pittsburgh A", "A A A A A".
LongLabels ==
    {Join(<< <<"A">>, <<"A">>, <<"A">>, w, <<"A">> >>) :
        w \in {<<"C","r","e","e","k">>,
                <<"P","i","t","t","s","b","u","r","g","h">>, <<"A">>}}

\* The labels typed during a session: "A - B" and the empty box.
SessionLabels == {<<"A", " ", "-", " ", "B">>, <<>>}

\* What is typed into the "Company Name" and "Project Name" boxes.
ManualNames == {<<"X">>}

\* What is typed into an "extract" text area.
NoteTexts == {"Western Australia"}

\* The steps whose "extract" area is filled in during a session: the first
\* and the last.
NoteSteps == {0, NumSteps - 1}

\* The secrets a session is deployed with: none, Google's key alone, or both
\* keys.  Bing's key alone is covered call by call in the specification of
\* search_web_info.
SessionSecrets == {{}, {"serp_api_key"}, SecretKeys}

\* What the network does to a request of a research step.
StepSerpResponses == {Body([organic_results |-> <<SerpEntry(1)>>]), Status(500)}

StepBingResponses == {Body([webPages |-> [value |-> <<BingEntry(1)>>]]), Status(500)}

\* The queries search_web_info is called with on its own.
SearchQueries == {BuildQuery(0, <<"A">>, <<"B">>), BuildQuery(7, <<"B">>, <<"A">>)}

NoRequest == [kind |-> "none"]

-----------------------------------------------------------------------------
(* main(): one action per user event; each runs the script to its end,     *)
(* rerun included.                                                         *)

\* Lines 412-413.
StoreIdentity(d, company, project) ==
    Put(Put(d, "company_name", company), "project_name", project)

Init ==
    /\ project_input = <<>>
    /\ company_name = <<>>
    /\ project_name = <<>>
    /\ research_data = EmptyDict
    /\ completed_steps = {}
    /\ secrets \in SessionSecrets
    /\ spent = 0
    /\ last = "plain"
    /\ pc = "idle"
    /\ query = <<>>
    /\ result = EmptyDict
    /\ ret = EmptyDict
    /\ calls = <<>>

search_vars == <<pc, query, result, ret, calls>>

\* What an edit of the label or of a name spends: one, and one for every
\* record it leaves with the query of the names before the edit.
RenameCost == 1 + Cardinality(completed_steps)

\* The user types a label (lines 382-413).  An empty box ends the script at
\* line 390, before anything is stored.
SetLabel(l) ==
    /\ l # project_input
    /\ spent + RenameCost <= MaxEvents
    /\ spent' = spent + RenameCost
    /\ project_input' = l
    /\ IF l = <<>>
       THEN UNCHANGED <<company_name, project_name, research_data>>
       ELSE LET parsed == parse_project_input(l) IN
            /\ company_name' = parsed[1]
            /\ project_name' = parsed[2]
            /\ research_data' = StoreIdentity(research_data, parsed[1], parsed[2])
    /\ last' = "plain"
    /\ UNCHANGED <<completed_steps, secrets, search_vars>>

\* The user overrides the company (line 408).
EditCompany(c) ==
    /\ project_input # <<>>
    /\ c # company_name
    /\ spent + RenameCost <= MaxEvents
    /\ spent' = spent + RenameCost
    /\ company_name' = c
    /\ research_data' = StoreIdentity(research_data, c, project_name)
    /\ last' = "plain"
    /\ UNCHANGED <<project_input, project_name, completed_steps, secrets, search_vars>>

\* The user overrides the project (line 409).
EditProject(p) ==
    /\ project_input # <<>>
    /\ p # project_name
    /\ spent + RenameCost <= MaxEvents
    /\ spent' = spent + RenameCost
    /\ project_name' = p
    /\ research_data' = StoreIdentity(research_data, company_name, p)
    /\ last' = "plain"
    /\ UNCHANGED <<project_input, company_name, completed_steps, secrets, search_vars>>

\* What requests.get may do in the call of a provider: nothing is requested
\* without the key, or when the provider is not reached.
MayAnswer(key, keys, reached, responses) ==
    IF reached /\ key \in keys THEN responses ELSE {NoRequest}

\* Line 506 keeping the result a step already has (dict.setdefault).
StoreResultKeepFirst(d, i, rec) == IF StepKey(i) \in DOMAIN d THEN d ELSE Put(d, StepKey(i), rec)

\* Line 506 storing the result and dropping the note saved for the step.
StoreResultDroppingNote(d, i, rec) ==
    [x \in ((DOMAIN d) \cup {StepKey(i)}) \ {ExtractedKey(i)} |->
        IF x = StepKey(i) THEN rec ELSE d[x]]

\* Line 506: st.session_state.research_data[step['key']] = result
StoreResult(d, i, rec) == Put(d, StepKey(i), rec)

\* Line 507 with the number shown on the button, i + 1.
MarkCompletedOneBased(done, i) == done \cup {i + 1}

\* Line 507: st.session_state.completed_steps.add(i)
MarkCompleted(done, i) == done \cup {i}

\* "Research Step i+1" is pressed (lines 503-508) and the network answers the
\* requests of search_web_info with serpResp and bingResp.
RunStepWith(i, serpResp, bingResp) ==
    LET found == search_web_info(BuildQuery(i, company_name, project_name),
                                 secrets, serpResp, bingResp)
        rec == StepResult(i, company_name, project_name, found)
        cost == (IF serpResp \in Failures THEN 1 ELSE 0)
                    + (IF bingResp \in Failures THEN 1 ELSE 0)
        stored == StoreResult(research_data, i, rec)
    IN /\ project_input # <<>>
       /\ UNCHANGED <<project_input, company_name, project_name, secrets, search_vars>>
       /\ completed_steps' = MarkCompleted(completed_steps, i)
       /\ spent + cost <= MaxEvents
       /\ spent' = spent + cost
       /\ research_data' = StoreIdentity(stored, company_name, project_name)
       /\ last' = IF StepKey(i) \in DOMAIN research_data
                     /\ stored[StepKey(i)] # research_data[StepKey(i)]
                  THEN "overwrite" ELSE "run"

RunStep(i) ==
    \E serpResp \in MayAnswer("serp_api_key", secrets, TRUE, StepSerpResponses) :
    \E bingResp \in MayAnswer("bing_api_key", secrets,
                              serpResp \in Failures \cup {NoRequest},
                              StepBingResponses) :
        RunStepWith(i, serpResp, bingResp)

\* Lines 568-569 without the test of line 511.
SavedNoteUnguarded(d, i, text) == Put(d, ExtractedKey(i), text)

\* Lines 511 and 568-569: the save button of step i exists only when the step
\* has a result; pressing it stores the text area's content.
SavedNote(d, i, text) ==
    IF StepKey(i) \in DOMAIN d THEN Put(d, ExtractedKey(i), text) ELSE d

\* "Save extracted info" of step i with `text` in its text area (lines
\* 510-571).
SaveNote(i, text) ==
    /\ project_input # <<>>
    /\ spent < MaxEvents
    /\ spent' = spent + 1
    /\ research_data' = SavedNote(research_data, i, text)
    /\ last' = IF StepKey(i) \in DOMAIN research_data THEN "plain" ELSE "nosave"
    /\ UNCHANGED <<project_input, company_name, project_name, completed_steps,
                   secrets, search_vars>>

\* Line 621 alone: the names are not stored again.
ClearedDataOnly(d, company, project) == EmptyDict

\* Line 621, then the rerun through lines 412-413.
ClearedData(d, company, project) == StoreIdentity(EmptyDict, company, project)

\* Line 622.
ClearedSteps(done) == {}

\* "Clear All Research Data" (lines 578, 619-623).
Clear ==
    /\ project_input # <<>>
    /\ completed_steps # {}
    /\ research_data' = ClearedData(research_data, company_name, project_name)
    /\ completed_steps' = ClearedSteps(completed_steps)
    /\ last' = "clear"
    /\ UNCHANGED <<project_input, company_name, project_name, secrets, spent,
                   search_vars>>

\* Line 586 with the comparison off by one.
ReportedCompleteOffByOne(done) == done # {} /\ Cardinality(done) >= NumSteps - 1

\* Lines 578-587: "All research steps completed!" is shown.
ReportedComplete(done) == done # {} /\ Cardinality(done) = NumSteps

Next ==
    \/ \E l \in SessionLabels : SetLabel(l)
    \/ \E c \in ManualNames : EditCompany(c)
    \/ \E p \in ManualNames : EditProject(p)
    \/ \E i \in StepIndexes : RunStep(i)
    \/ \E i \in NoteSteps, text \in NoteTexts : SaveNote(i, text)
    \/ Clear

Spec == Init /\ [][Next]_vars

-----------------------------------------------------------------------------
(* search_web_info(query), statement by statement.                         *)

session_vars ==
    <<project_input, company_name, project_name, research_data,
      completed_steps, spent, last>>

InitSearch ==
    /\ project_input = <<>>
    /\ company_name = <<>>
    /\ project_name = <<>>
    /\ research_data = EmptyDict
    /\ completed_steps = {}
    /\ secrets \in SUBSET SecretKeys
    /\ spent = 0
    /\ last = "plain"
    /\ pc = "serp"
    /\ query \in SearchQueries
    /\ result = EmptyDict
    /\ ret = EmptyDict
    /\ calls = <<>>

\* Line 166.
CallSerp ==
    /\ pc = "serp"
    /\ \E resp \in (IF "serp_api_key" \in secrets THEN SerpResponses ELSE {NoRequest}) :
          LET out == search_web_serp(query, secrets, resp) IN
          /\ result' = out
          /\ calls' = Append(calls, [fn |-> "search_web_serp", resp |-> resp,
                                     requests |-> SerpRequests(secrets), out |-> out])
    /\ pc' = "serp_test"
    /\ UNCHANGED <<session_vars, secrets, query, ret>>

\* Lines 167-168.
ReturnSerp ==
    /\ pc = "serp_test"
    /\ ~HasError(result)
    /\ ret' = result
    /\ pc' = "returned"
    /\ UNCHANGED <<session_vars, secrets, query, result, calls>>

\* Line 171, reached when the test of line 167 fails.
CallBing ==
    /\ pc = "serp_test"
    /\ HasError(result)
    /\ \E resp \in (IF "bing_api_key" \in secrets THEN BingResponses ELSE {NoRequest}) :
          LET out == search_web_bing(query, secrets, resp) IN
          /\ result' = out
          /\ calls' = Append(calls, [fn |-> "search_web_bing", resp |-> resp,
                                     requests |-> BingRequests(secrets), out |-> out])
    /\ pc' = "bing_test"
    /\ UNCHANGED <<session_vars, secrets, query, ret>>

\* Lines 172-173.
ReturnBing ==
    /\ pc = "bing_test"
    /\ ~HasError(result)
    /\ ret' = result
    /\ pc' = "returned"
    /\ UNCHANGED <<session_vars, secrets, query, result, calls>>

\* Lines 176-179, reached when the test of line 172 fails.
ReturnError ==
    /\ pc = "bing_test"
    /\ HasError(result)
    /\ ret' = BothFailed(query)
    /\ pc' = "returned"
    /\ UNCHANGED <<session_vars, secrets, query, result, calls>>

\* The step whose get_* function built the query q.
StepOfQuery(q) == CHOOSE i \in StepIndexes : q = BuildQuery(i, q[2], q[4])

\* The caller takes what search_web_info returned: the get_* function wraps it
\* (lines 238-245) and main stores it under the step's key (lines 505-507).
StoreReturned ==
    /\ pc = "returned"
    /\ LET i == StepOfQuery(query) IN
          /\ research_data' = StoreResult(research_data, i,
                                          StepResult(i, query[2], query[4], ret))
          /\ completed_steps' = MarkCompleted(completed_steps, i)
    /\ pc' = "stored"
    /\ UNCHANGED <<project_input, company_name, project_name, spent, last,
                   secrets, query, result, ret, calls>>

NextSearch ==
    CallSerp \/ ReturnSerp \/ CallBing \/ ReturnBing \/ ReturnError \/ StoreReturned

SpecSearch == InitSearch /\ [][NextSearch]_vars

-----------------------------------------------------------------------------
(* parse_project_input, applied to every label of Labels (lines 388-413).  *)

InitParse ==
    /\ project_input \in Labels \cup WordLabels \cup LongLabels
    /\ company_name = <<>>
    /\ project_name = <<>>
    /\ research_data = EmptyDict
    /\ completed_steps = {}
    /\ secrets = {}
    /\ spent = 0
    /\ last = "plain"
    /\ pc = "idle"
    /\ query = <<>>
    /\ result = EmptyDict
    /\ ret = EmptyDict
    /\ calls = <<>>

\* The first run of the script over the label: lines 393 and 412-413.
ParseLabel ==
    /\ project_input # <<>>
    /\ "company_name" \notin DOMAIN research_data
    /\ LET parsed == parse_project_input(project_input) IN
          /\ company_name' = parsed[1]
          /\ project_name' = parsed[2]
          /\ research_data' = StoreIdentity(research_data, parsed[1], parsed[2])
    /\ UNCHANGED <<project_input, completed_steps, secrets, spent, last, search_vars>>

NextParse == ParseLabel

SpecParse == InitParse /\ [][NextParse]_vars

-----------------------------------------------------------------------------
(* The fallback of search_web_info, checked under SpecSearch.              *)

Failed(r) == "error" \in DOMAIN r

\* The statement-level search_web_info returns what the function of the
\* network's answers returns.
SearchAgrees ==
    pc \in {"returned", "stored"} =>
        ret = search_web_info(query, secrets, calls[1].resp,
                              IF Len(calls) = 2 THEN calls[2].resp ELSE NoRequest)

\* C1: Google is tried first; Bing is called only after the Google call has
\* ended in an error; the first success is returned, so that Bing's success is
\* the outcome when Google failed, and Bing is not called when Google succeeded.
C1_GoogleThenBing ==
    /\ Len(calls) <= 2
    /\ calls # <<>> => calls[1].fn = "search_web_serp"
    /\ \A k \in 1..Len(calls) :
          calls[k].fn = "search_web_bing" => k = 2 /\ Failed(calls[1].out)
    /\ pc = "returned" =>
          /\ calls # <<>>
          /\ ~Failed(calls[1].out) => Len(calls) = 1 /\ ret = calls[1].out
          /\ Failed(calls[1].out) =>
                /\ Len(calls) = 2
                /\ ~Failed(calls[2].out) => ret = calls[2].out /\ ret # calls[1].out

C1_Witness ==
    /\ pc = "returned"
    /\ Len(calls) = 2
    /\ calls[1].resp = Status(500)
    /\ ~Failed(calls[2].out)
    /\ ret = calls[2].out

\* C2: with no key configured, or with every provider failing, the outcome is
\* the one error with the fixed message and the query as it was passed.
C2_AggregatedError ==
    (pc = "returned" /\ (secrets = {} \/ \A k \in 1..Len(calls) : Failed(calls[k].out)))
        => /\ DOMAIN ret = {"error", "query"}
           /\ ret["error"] = NoWorkingSearchApi
           /\ ret["query"] = query

C2_Witness ==
    /\ pc = "returned"
    /\ secrets = SecretKeys
    /\ Len(calls) = 2
    /\ calls[1].resp = Raises("timeout")
    /\ calls[2].resp = Status(404)
    /\ ret["error"] = NoWorkingSearchApi

\* What search_web_info returns for q when st.secrets holds no key.
NothingConfigured(q) == search_web_info(q, {}, NoRequest, NoRequest)

\* C3: the error returned when a configured provider was called and the live
\* search failed differs from the error returned when no key is configured.
C3_FailureDiffersFromNoKey ==
    (pc = "returned" /\ Failed(ret) /\ \E k \in 1..Len(calls) : calls[k].requests > 0)
        => ret # NothingConfigured(query)

ReasonOf(call) ==
    CASE call.resp = NoRequest ->
            IF call.fn = "search_web_serp"
            THEN "SERP API key not found in secrets"
            ELSE "Bing API key not found in secrets"
      [] call.resp.kind = "raise" -> SearchError(call.resp.exc)
      [] call.resp.kind = "http" /\ call.resp.status # 200 ->
            FailedWithStatus(call.resp.status)
      [] call.resp.kind = "http" /\ call.resp.status = 200 /\ ~call.resp.json ->
            SearchError("json")
      [] call.resp.kind = "http" /\ call.resp.status = 200 /\ call.resp.json ->
            SearchError("attribute")

-----------------------------------------------------------------------------
(* The session state, checked under Spec.                                  *)

HasRecord(i) == StepKey(i) \in DOMAIN research_data

\* C5: the completed set is the set of the steps that have a stored record,
\* whatever the stored outcome.
C5_CompletedIsRecorded ==
    completed_steps = {i \in StepIndexes : HasRecord(i)}

C5_Witness ==
    \E i, j \in completed_steps :
        /\ HasRecord(i) /\ ~Failed(research_data[StepKey(i)]["results"])
        /\ HasRecord(j) /\ Failed(research_data[StepKey(j)]["results"])

\* C6: running a step that has a record replaces the record by the result of
\* this run; the step stays in completed once and no key is added.
C6_LastRunWins ==
    [][\A i \in StepIndexes :
        HasRecord(i) =>
        \A serpResp \in MayAnswer("serp_api_key", secrets, TRUE, StepSerpResponses) :
        \A bingResp \in MayAnswer("bing_api_key", secrets, TRUE, StepBingResponses) :
          RunStepWith(i, serpResp, bingResp) =>
             /\ StepKey(i) \in DOMAIN research_data'
             /\ research_data'[StepKey(i)]["results"] =
                   search_web_info(BuildQuery(i, company_name, project_name),
                                   secrets, serpResp, bingResp)
             /\ DOMAIN research_data' = DOMAIN research_data
             /\ i \in completed_steps'
             /\ Cardinality(completed_steps') = Cardinality(completed_steps)]_vars

C6_Witness ==
    /\ last = "overwrite"
    /\ \E i \in completed_steps : Failed(research_data[StepKey(i)]["results"])
    /\ \E i \in completed_steps : ~Failed(research_data[StepKey(i)]["results"])

\* C7: completion is reported exactly when completed has the size 8, which is
\* when every one of the eight steps has a record.
C7_CompleteIffAllEight ==
    /\ ReportedComplete(completed_steps) <=> Cardinality(completed_steps) = NumSteps
    /\ ReportedComplete(completed_steps) <=> \A i \in StepIndexes : HasRecord(i)

C7_Witness ==
    /\ ReportedComplete(completed_steps)
    /\ last = "overwrite"

\* C8: a save for a step without a record changes nothing of the session, and
\* a note is held only for a step that has a record.
C8_SaveWithoutRecordIsNoOp ==
    [][/\ \A i \in StepIndexes : \A text \in NoteTexts :
             (~HasRecord(i) /\ SaveNote(i, text)) =>
                UNCHANGED <<research_data, completed_steps, project_input,
                            company_name, project_name>>
       /\ \A i \in StepIndexes :
             ExtractedKey(i) \in DOMAIN research_data' =>
                StepKey(i) \in DOMAIN research_data']_vars

C8_Witness ==
    /\ last = "nosave"
    /\ \E i \in StepIndexes : ~HasRecord(i)

\* C9: clear empties the records, the notes and completed, and the company
\* and the project stored after it are those stored before it.
C9_ClearKeepsIdentity ==
    [][Clear =>
        /\ DOMAIN research_data' = {"company_name", "project_name"}
        /\ research_data'["company_name"] = research_data["company_name"]
        /\ research_data'["project_name"] = research_data["project_name"]
        /\ completed_steps' = {}]_vars

C9_Witness ==
    /\ last = "clear"
    /\ DOMAIN research_data = {"company_name", "project_name"}
    /\ research_data["company_name"] = <<"X">>
    /\ research_data["project_name"] = <<"B">>

-----------------------------------------------------------------------------
(* The parser, checked under SpecParse.                                    *)

Parsed == "company_name" \in DOMAIN research_data

\* t is s without the whitespace at its two ends.
IsTrimOf(t, s) ==
    \E a \in 0..Len(s) : \E b \in a..Len(s) :
        /\ \A k \in 1..a : s[k] = " "
        /\ \A k \in (b + 1)..Len(s) : s[k] = " "
        /\ t = [k \in 1..(b - a) |-> s[a + k]]
        /\ t # <<>> => t[1] # " " /\ t[Len(t)] # " "

\* C10: a label that holds a separator is cut at the first occurrence of the
\* first separator of the list that occurs in it; the two parts, trimmed, are
\* the company and the project, and nothing else is done to them.
C10_SplitAtFirstSeparator ==
    (Parsed /\ \E n \in 1..Len(separators) : Contains(separators[n], project_input))
        => \E n \in 1..Len(separators) : \E k \in 1..Len(project_input) :
              /\ \A m \in (1..Len(separators)) :
                    m < n => ~Contains(separators[m], project_input)
              /\ OccursAt(separators[n], project_input, k)
              /\ \A j \in 1..(k - 1) : ~OccursAt(separators[n], project_input, j)
              /\ IsTrimOf(company_name,
                          [x \in 1..(k - 1) |-> project_input[x]])
              /\ IsTrimOf(project_name,
                          [x \in 1..(Len(project_input) - k - 2) |-> project_input[k + 2 + x]])
              /\ research_data["company_name"] = company_name
              /\ research_data["project_name"] = project_name

\* " |  - A": the bar comes first in the label, the hyphen first in the list.
C10_Witness ==
    /\ Parsed
    /\ project_input = <<" ", "|", " ", " ", "-", " ", "A">>
    /\ company_name = <<"|">>
    /\ project_name = <<"A">>

\* No separator of the list occurs in the label.
NoSeparator == \A n \in 1..Len(separators) : ~Contains(separators[n], project_input)

\* project_input.split()
Words == SplitWords(project_input)

\* C11 as stated: a single-word label is returned, as it is, as the company
\* and as the project.
C11_SingleWordIsLabel ==
    (Parsed /\ Len(Words) = 1)
        => company_name = project_input /\ project_name = project_input

\* C11, amended: for a label of one word that holds no separator, the company
\* and the project are both that word, the label without the whitespace
\* around it; they are the label itself when no whitespace surrounds the word.
C11_SingleWordIsTrimmedLabel ==
    (Parsed /\ NoSeparator /\ Len(Words) = 1)
        => /\ company_name = Words[1]
           /\ project_name = Words[1]
           /\ IsTrimOf(company_name, project_input)
           /\ research_data["company_name"] = company_name
           /\ research_data["project_name"] = project_name
           /\ (project_input[1] # " " /\ project_input[Len(project_input)] # " ")
                 => company_name = project_input /\ project_name = project_input

\* " A ": one word with whitespace on both sides.
C11_Witness ==
    /\ Parsed
    /\ project_input = <<" ", "A", " ">>
    /\ company_name = <<"A">>
    /\ project_name = <<"A">>

\* Step 3 finds a split: a word after the first is, in lower case, a keyword.
KeywordAfterFirst ==
    \E k \in 2..Len(Words) : Lower(Words[k]) \in project_keywords

\* Step 4 finds a split at the last word: it holds a word of the narrower set.
LastWordHit ==
    \E keyword \in potential_project_words :
        Contains(keyword, Lower(Words[Len(Words)]))

\* Step 4 finds a split at the last two words, joined by one space.
LastTwoHit ==
    /\ Len(Words) >= 3
    /\ \E keyword \in potential_project_words :
          Contains(keyword,
                   Lower(Words[Len(Words) - 1] \o <<" ">> \o Words[Len(Words)]))

\* C12: a label without a separator, of two words or more, in which steps 3
\* and 4 find no split, is cut at the word of index floor(length/2): the words
\* before it are the company, the others the project; "BHP Olympic Dam" gives
\* ("BHP", "Olympic Dam").
C12_MidpointSplit ==
    /\ (Parsed /\ NoSeparator /\ Len(Words) >= 2
          /\ ~KeywordAfterFirst /\ ~LastWordHit /\ ~LastTwoHit)
         => LET mid == Len(Words) \div 2 IN
            /\ company_name = Join(SubSeq(Words, 1, mid))
            /\ project_name = Join(SubSeq(Words, mid + 1, Len(Words)))
            /\ research_data["company_name"] = company_name
            /\ research_data["project_name"] = project_name
    /\ (Parsed /\ project_input = <<"B","H","P"," ","O","l","y","m","p","i","c"," ","D","a","m">>)
         => /\ company_name = <<"B","H","P">>
            /\ project_name = <<"O","l","y","m","p","i","c"," ","D","a","m">>

\* "BHP Olympic Dam" has been parsed.
C12_Witness ==
    /\ Parsed
    /\ project_input = <<"B","H","P"," ","O","l","y","m","p","i","c"," ","D","a","m">>
    /\ NoSeparator /\ ~KeywordAfterFirst /\ ~LastWordHit /\ ~LastTwoHit
    /\ company_name = <<"B","H","P">>

-----------------------------------------------------------------------------
(* The outcome of a search and what the caller does with it, checked under *)
(* SpecSearch.                                                             *)

\* r is an Ok outcome: a list of results and the query.
IsOk(r) == DOMAIN r = {"results", "query"}

\* r is an Err outcome of the orchestrator: a reason and the query.
IsErr(r) == DOMAIN r = {"error", "query"}

\* C13: whatever the keys and whatever the network does (no key, a status
\* other than 200, an exception or a timeout, a body that is not JSON or whose
\* entries are not objects), every provider call returns a dict, the
\* orchestrator goes on to its return, what it returns is an Ok or an Err, and
\* the step that called it stores a record holding that outcome.
C13_NeverRaises ==
    /\ \A k \in 1..Len(calls) :
          DOMAIN calls[k].out = {"error"} \/ IsOk(calls[k].out)
    /\ pc # "stored" => ENABLED NextSearch
    /\ pc \in {"returned", "stored"} =>
          /\ IsOk(ret) \/ IsErr(ret)
          /\ ret["query"] = query
    /\ pc = "stored" =>
          LET i == StepOfQuery(query) IN
          /\ i \in completed_steps
          /\ StepKey(i) \in DOMAIN research_data
          /\ research_data[StepKey(i)]["results"] = ret
          /\ research_data[StepKey(i)]["query"] = query

\* Google's body holds a null entry and Bing's request times out; the record
\* of the step holds the aggregated error.
C13_Witness ==
    /\ pc = "stored"
    /\ Len(calls) = 2
    /\ calls[1].resp \in SerpNullBodies
    /\ calls[2].resp = Raises("timeout")
    /\ \E i \in completed_steps : IsErr(research_data[StepKey(i)]["results"])

\* The calls of the run made to the provider fn.
CallsTo(fn) == {k \in 1..Len(calls) : calls[k].fn = fn}

\* The key a provider needs.
KeyOf(fn) == IF fn = "search_web_serp" THEN "serp_api_key" ELSE "bing_api_key"

\* C14: a provider call sends at most one request and none without its key;
\* a run of the orchestrator calls Google at most once and Bing at most once,
\* so it sends at most one request to each.
C14_OneRequestPerProvider ==
    /\ \A k \in 1..Len(calls) :
          /\ calls[k].requests <= 1
          /\ KeyOf(calls[k].fn) \notin secrets =>
                calls[k].requests = 0 /\ calls[k].resp = NoRequest
          /\ calls[k].requests = 0 <=> calls[k].resp = NoRequest
    /\ Cardinality(CallsTo("search_web_serp")) <= 1
    /\ Cardinality(CallsTo("search_web_bing")) <= 1
    /\ \A k \in 1..Len(calls) :
          calls[k].fn \in {"search_web_serp", "search_web_bing"}

\* Google has no key and sends nothing; Bing is called and sends one request.
C14_Witness ==
    /\ pc = "stored"
    /\ Len(calls) = 2
    /\ calls[1].requests = 0
    /\ calls[2].requests = 1
    /\ calls[2].resp \in Failures

\* The entries of the body a provider call received: the list under the key
\* the provider reads, empty when the body has no such list.
EntriesOf(call) ==
    LET data == call.resp.data IN
    IF call.fn = "search_web_serp"
    THEN IF "organic_results" \in DOMAIN data THEN data["organic_results"] ELSE <<>>
    ELSE IF "webPages" \in DOMAIN data /\ "value" \in DOMAIN data["webPages"]
         THEN data["webPages"]["value"] ELSE <<>>

\* The field of an entry, the empty string when the entry lacks it.
FieldOf(entry, name) == IF name \in DOMAIN entry THEN entry[name] ELSE ""

\* The normalized shape of an entry of the provider fn.
Normalized(fn, entry) ==
    IF fn = "search_web_serp"
    THEN [title |-> FieldOf(entry, "title"), link |-> FieldOf(entry, "link"),
          snippet |-> FieldOf(entry, "snippet")]
    ELSE [title |-> FieldOf(entry, "name"), link |-> FieldOf(entry, "url"),
          snippet |-> FieldOf(entry, "snippet")]

\* The call was answered with the status 200.
Answered200(call) == call.resp # NoRequest /\ call.resp.kind = "http" /\ call.resp.status = 200

\* The body decodes and the entries the provider reads are objects.
WellFormed(call) ==
    /\ call.resp.json
    /\ \A k \in 1..Len(EntriesOf(call)) : k <= 5 => EntriesOf(call)[k] # JsonNull

NoOrganicEntries(call) ==
    /\ call.fn = "search_web_serp"
    /\ Answered200(call)
    /\ EntriesOf(call) = <<>>

\* The orchestrator takes Google's outcome r1 as its own and leaves Bing alone.
GoogleAnswerTaken(r1) ==
    /\ Len(calls) = 1
    /\ pc = "serp_test" => ENABLED ReturnSerp /\ ~ENABLED CallBing
    /\ pc \in {"returned", "stored"} => ret = r1
    /\ pc = "stored" =>
          research_data[StepKey(StepOfQuery(query))]["results"] = r1

-----------------------------------------------------------------------------
(* The queries and the frame of a step, checked under Spec.                *)

\* The query stored in the record of step i.
QueryOf(d, i) == d[StepKey(i)]["query"]

\* C16: the query of a record is a function of the step and of the company
\* and the project at the time of the run; running a step again under the
\* company and the project of its previous run stores the query the record
\* already held, whatever the two outcomes and whatever was done in between.
C16_SameIdentitySameQuery ==
    [][/\ \A i \in StepIndexes :
             \/ /\ StepKey(i) \in DOMAIN research_data'
                /\ QueryOf(research_data', i) = BuildQuery(i, company_name, project_name)
             \/ ~RunStep(i)
       /\ \A i \in StepIndexes :
             (/\ HasRecord(i)
              /\ QueryOf(research_data, i)[2] = company_name
              /\ QueryOf(research_data, i)[4] = project_name)
                => \/ /\ StepKey(i) \in DOMAIN research_data'
                      /\ QueryOf(research_data', i) = QueryOf(research_data, i)
                   \/ ~RunStep(i)]_vars

\* A step has been run again with another outcome, and two steps hold results
\* of different providers under the same company and project.
C16_Witness ==
    /\ last = "overwrite"
    /\ \E i, j \in completed_steps :
          /\ i # j
          /\ QueryOf(research_data, i) = BuildQuery(i, company_name, project_name)
          /\ QueryOf(research_data, j) = BuildQuery(j, company_name, project_name)
          /\ ~Failed(research_data[StepKey(i)]["results"])
          /\ ~Failed(research_data[StepKey(j)]["results"])
          /\ research_data[StepKey(i)]["results"]["results"]
                # research_data[StepKey(j)]["results"]["results"]

-----------------------------------------------------------------------------
(* Steps 3 and 4 of the parser, checked under SpecParse.                   *)

\* The company and the project are the words before and from position k.
SplitBefore(k) ==
    /\ company_name = Join(SubSeq(Words, 1, k - 1))
    /\ project_name = Join(SubSeq(Words, k, Len(Words)))

\* C17 as stated: when step 3 finds no split, the last word is split off
\* exactly when it is, in lower case, a member of {hill, creek, mine, pit,
\* deposit, prospect}, otherwise the last two words exactly when one of them
\* is, and otherwise the words are cut at the midpoint; a last word that only
\* contains a keyword does not count.
C17_TrailingSplitOnMembership ==
    (Parsed /\ NoSeparator /\ Len(Words) >= 2 /\ ~KeywordAfterFirst)
        => LET n == Len(Words) IN
           IF Lower(Words[n]) \in potential_project_words
           THEN SplitBefore(n)
           ELSE IF n >= 3 /\ Lower(Words[n - 1]) \in potential_project_words
           THEN SplitBefore(n - 1)
           ELSE SplitBefore(n \div 2 + 1)

\* C17, amended: when step 3 finds no split, the last word is split off
\* exactly when, in lower case, it contains a word of {hill, creek, mine, pit,
\* deposit, prospect}; otherwise the last two words are split off exactly when
\* there are three words or more and the two, joined, contain one; otherwise
\* the words are cut at the midpoint.  "BHP Olympic Pittsburgh" gives
\* ("BHP Olympic", "Pittsburgh").
C17_TrailingSplitOnContainment ==
    /\ (Parsed /\ NoSeparator /\ Len(Words) >= 2 /\ ~KeywordAfterFirst)
         => LET n == Len(Words) IN
            IF LastWordHit THEN SplitBefore(n)
            ELSE IF LastTwoHit THEN SplitBefore(n - 1)
            ELSE SplitBefore(n \div 2 + 1)
    /\ (Parsed /\ project_input = Join(<< <<"B","H","P">>, <<"O","l","y","m","p","i","c">>,
                                         <<"P","i","t","t","s","b","u","r","g","h">> >>))
         => /\ company_name = <<"B","H","P"," ","O","l","y","m","p","i","c">>
            /\ project_name = <<"P","i","t","t","s","b","u","r","g","h">>

\* "BHP Olympic Pittsburgh" has been parsed: the last word contains "pit".
C17_Witness ==
    /\ Parsed
    /\ Len(Words) = 3
    /\ NoSeparator /\ ~KeywordAfterFirst /\ LastWordHit
    /\ Lower(Words[3]) \notin potential_project_words
    /\ project_name = <<"P","i","t","t","s","b","u","r","g","h">>
    /\ company_name = <<"B","H","P"," ","O","l","y","m","p","i","c">>

\* C18: in a label without a separator, of two words or more, with a word
\* after the first that is, in lower case, one of {project, mine, deposit,
\* prospect, operation, hill, pit, field}, the words are cut before the first
\* such word: a keyword in the first place is passed over and the scan goes on.
C18_SplitAtFirstKeyword ==
    (Parsed /\ NoSeparator /\ Len(Words) >= 2 /\ KeywordAfterFirst)
        => \E k \in 2..Len(Words) :
              /\ Lower(Words[k]) \in project_keywords
              /\ \A j \in 2..(k - 1) : Lower(Words[j]) \notin project_keywords
              /\ SplitBefore(k)
              /\ company_name # <<>>
              /\ research_data["company_name"] = company_name
              /\ research_data["project_name"] = project_name

\* "Mine BHP Mine": the keyword in the first place does not end the scan.
C18_Witness ==
    /\ Parsed
    /\ project_input = Join(<< <<"M","i","n","e">>, <<"B","H","P">>, <<"M","i","n","e">> >>)
    /\ company_name = <<"M","i","n","e"," ","B","H","P">>
    /\ project_name = <<"M","i","n","e">>

-----------------------------------------------------------------------------
(* The frame of a research step, checked under Spec.                       *)

\* What RunStepWith makes of completed and of `last` in a run of step i:
\* "overwrite" when the record of step i has changed, "run" when it is new or
\* the same.  Every run of step i satisfies it, so RunMark(i) /\ RunStep(i)
\* is RunStep(i).
RunMark(i) ==
    /\ last' \in {"run", "overwrite"}
    /\ completed_steps' = MarkCompleted(completed_steps, i)
    /\ IF HasRecord(i) /\ StepKey(i) \in DOMAIN research_data'
              /\ research_data'[StepKey(i)] # research_data[StepKey(i)]
       THEN last' = "overwrite"
       ELSE last' = "run"

\* Between the two states nothing but the record of step i and the
\* membership of i in completed has changed: every other entry of the store
\* (the records of the other steps, the saved notes, that of step i included,
\* the stored company and project) is there with its value, no other entry
\* has appeared, and the label and the names are as they were.
OnlyStepChanged(i) ==
    /\ completed_steps' \ {i} = completed_steps \ {i}
    /\ UNCHANGED <<project_input, company_name, project_name>>
    /\ (DOMAIN research_data') \ {StepKey(i)} = (DOMAIN research_data) \ {StepKey(i)}
    /\ \A key \in (DOMAIN research_data) \ {StepKey(i)} :
          research_data'[key] = research_data[key]

\* C19: a run of step i changes only the record of step i and the membership
\* of i in completed: no record of another step, no saved note and nothing of
\* the identity is altered.  (A step that leaves the store, completed and the
\* names as they were has changed nothing of any step.)
C19_RunTouchesOwnRecordOnly ==
    [][\/ UNCHANGED <<research_data, completed_steps, project_input,
                      company_name, project_name>>
       \/ \A i \in StepIndexes :
             (RunMark(i) /\ RunStep(i)) => OnlyStepChanged(i)]_vars

\* A step has just been run while the note of the first step is saved and at
\* least two other steps hold records of the company and the project of the
\* label.
C19_Witness ==
    /\ last = "run"
    /\ Cardinality(completed_steps) >= 3
    /\ ExtractedKey(0) \in DOMAIN research_data
    /\ research_data["company_name"] = <<"A">>
    /\ research_data["project_name"] = <<"B">>
    /\ \A i \in completed_steps :
          QueryOf(research_data, i) = BuildQuery(i, <<"A">>, <<"B">>)


-----------------------------------------------------------------------------
(* The words of a label without separator, checked under SpecParse.        *)

\* C21: a label without separator that has at least two words is parsed into
\* a company and a project that are both non-empty, each of at least one
\* word, and the words of the company followed by the words of the project
\* are the words of the label: none is lost, repeated or moved.  The names
\* stored for the session are the same two.
C21_WordsPartitioned ==
    (Parsed /\ NoSeparator /\ Len(Words) >= 2) =>
        /\ company_name # <<>>
        /\ project_name # <<>>
        /\ Len(SplitWords(company_name)) >= 1
        /\ Len(SplitWords(project_name)) >= 1
        /\ SplitWords(company_name) \o SplitWords(project_name) = Words
        /\ \E k \in 2..Len(Words) : SplitBefore(k)
        /\ research_data["company_name"] = company_name
        /\ research_data["project_name"] = project_name

\* "Mine BHP" has been parsed: the keyword is the first word, no company
\* stands before it, and the label is split in the middle.
C21_Witness ==
    /\ Parsed
    /\ project_input = Join(<< <<"M","i","n","e">>, <<"B","H","P">> >>)
    /\ NoSeparator
    /\ Len(Words) = 2
    /\ company_name = <<"M","i","n","e">>
    /\ project_name = <<"B","H","P">>

=============================================================================
